---------------------------- MODULE Spec2Model ----------------------------
(***************************************************************************)
(* study-htmx-fastapi: an agent front end in two shapes.                   *)
(*   src/main.py       the service frontend (FastAPI): lifespan startup /  *)
(*                     shutdown, the request handlers, the two extractors. *)
(*   src/streamlit.py  the interactive frontend: one run per button press. *)
(*                                                                         *)
(* Python objects are records whose DOMAIN is the set of attributes the    *)
(* object has: hasattr(o, "f") is "f" \in DOMAIN o.  Every object has the  *)
(* attribute cls.  None is the object [cls |-> "NoneType"].  A Python str  *)
(* whose content matters is a sequence of text fragments.  A call that can *)
(* raise yields an outcome: Ok(value) or Raise(exception).                 *)
(***************************************************************************)
EXTENDS Integers, Sequences, FiniteSets, TLC

\* ---------------------------------------------------------------- bounds
MaxRecords == 2     \* raw responses in a RunResult
MaxItems == 2       \* output items in one raw response
MaxErrLen == 3      \* fragments in the text of an error raised by a run
MaxMsgLen == 2      \* characters in a submitted chat message
MaxRequests == 2    \* chat requests in flight at once

VARIABLES
    frontend,        \* which entry point this process runs: main.py or streamlit.py
    env,             \* the AZURE_OPENAI_* environment values that are set
    \* ---- src/main.py, process scope
    mcp_server,      \* global mcp_server (None or the MCPServerStdio object)
    agent,           \* global agent (None or the Agent)
    available_tools, \* global available_tools
    lifespan_pc,     \* position of lifespan()
    svc_conn,        \* the service's tool-server connection: entered, aexit calls
    lifespan_exc,    \* the exception lifespan() let escape to the server, if any
    startup_failure, \* the startup step whose exception lifespan() caught
    in_flight,       \* number of chat requests suspended in Runner.run
    last,            \* the request most recently answered, with its response
    \* ---- src/streamlit.py, one run per button press
    ui_pc,           \* position of the button handler / run_agent_async
    ui_conn,         \* this run's tool-server connection: entered, aexit calls
    ui_exc,          \* the exception propagating out of the current frame, if any
    ui_run,          \* this run's Runner.run call: calls made, what it raised
    ui_shown,        \* what this run put on the page
    \* ---- the extractors applied to one RunResult
    result,          \* the RunResult under extraction
    svc_out,         \* what chat() builds from it (main.py)
    ui_out           \* what stream_response() derives from it (streamlit.py)

vars == <<frontend, env, mcp_server, agent, available_tools, lifespan_pc, svc_conn,
          lifespan_exc, startup_failure, in_flight, last,
          ui_pc, ui_conn, ui_exc, ui_run, ui_shown, result, svc_out, ui_out>>

svc_vars == <<mcp_server, agent, available_tools, lifespan_pc, svc_conn,
              lifespan_exc, startup_failure, in_flight, last>>
ui_vars == <<ui_pc, ui_conn, ui_exc, ui_run, ui_shown>>
extract_vars == <<result, svc_out, ui_out>>

\* ------------------------------------------------------- Python helpers
None == [cls |-> "NoneType"]

HasAttr(o, f) == f \in DOMAIN o

\* Objects are truthy unless they are None (no class here defines __bool__).
Truthy(o) == o.cls # "NoneType"

NoExc == [type |-> "none", origin |-> "none", text |-> <<>>]
Exc(type, origin, text) == [type |-> type, origin |-> origin, text |-> text]

Ok(v) == [raised |-> FALSE, exc |-> NoExc, value |-> v]
Raise(e) == [raised |-> TRUE, exc |-> e, value |-> None]

\* o.f : AttributeError when the object has no such attribute.
GetAttr(o, f) ==
    IF HasAttr(o, f) THEN Ok(o[f])
    ELSE Raise(Exc("AttributeError", "extract", <<"object has no attribute ", f>>))

\* getattr(o, f, default)
GetAttrDefault(o, f, default) == IF HasAttr(o, f) THEN o[f] ELSE default

\* All sequences over S of length at most n.
SeqsUpTo(S, n) == UNION {[1..k -> S] : k \in 0..n}

\* Faulty variant of Contains: startswith instead of in.
ContainsAtStart(haystack, needle) ==
    /\ Len(needle) <= Len(haystack)
    /\ \A j \in 1..Len(needle) : haystack[j] = needle[j]

\* needle in haystack, for str: some contiguous run of haystack equals needle.
Contains(haystack, needle) ==
    \E i \in 0..(Len(haystack) - Len(needle)) :
        \A j \in 1..Len(needle) : haystack[i + j] = needle[j]

\* ------------------------------------------------------------ json.loads
\* A JSON text is a sequence of tokens.  StrLit maps a string-literal token
\* to the Python str it denotes.
StrLit == [tok \in {"\"q\"", "\"k\""} |-> IF tok = "\"q\"" THEN <<"q">> ELSE <<"k">>]

PyStr(s) == [cls |-> "str", s |-> s]
PyInt(n) == [cls |-> "int", n |-> n]
PyList(items) == [cls |-> "list", items |-> items]
PyDict(pairs) == [cls |-> "dict", pairs |-> pairs]

JSONDecodeError == Exc("JSONDecodeError", "extract", <<"Expecting value">>)

Parsed(v, next) == [ok |-> TRUE, val |-> v, next |-> next]
NoParse == [ok |-> FALSE, val |-> None, next |-> 0]

RECURSIVE ParseValue(_, _), ParseElements(_, _, _), ParseMembers(_, _, _)

\* value at position i of s
ParseValue(s, i) ==
    IF i > Len(s) THEN NoParse
    ELSE IF s[i] = "1" THEN Parsed(PyInt(1), i + 1)
    ELSE IF s[i] \in DOMAIN StrLit THEN Parsed(PyStr(StrLit[s[i]]), i + 1)
    ELSE IF s[i] = "[" THEN
        IF i + 1 <= Len(s) /\ s[i + 1] = "]" THEN Parsed(PyList(<<>>), i + 2)
        ELSE ParseElements(s, i + 1, <<>>)
    ELSE IF s[i] = "{" THEN
        IF i + 1 <= Len(s) /\ s[i + 1] = "}" THEN Parsed(PyDict(<<>>), i + 2)
        ELSE ParseMembers(s, i + 1, <<>>)
    ELSE NoParse

\* the elements of an array after "[" : value ("," value)* "]"
ParseElements(s, i, acc) ==
    LET v == ParseValue(s, i) IN
    IF ~v.ok \/ v.next > Len(s) THEN NoParse
    ELSE IF s[v.next] = "]" THEN Parsed(PyList(Append(acc, v.val)), v.next + 1)
    ELSE IF s[v.next] = "," THEN ParseElements(s, v.next + 1, Append(acc, v.val))
    ELSE NoParse

\* the members of an object after "{" : string ":" value ("," ...)* "}"
ParseMembers(s, i, acc) ==
    IF i + 1 > Len(s) \/ s[i] \notin DOMAIN StrLit \/ s[i + 1] # ":" THEN NoParse
    ELSE LET v == ParseValue(s, i + 2) IN
         IF ~v.ok \/ v.next > Len(s) THEN NoParse
         ELSE LET pair == <<StrLit[s[i]], v.val>> IN
              IF s[v.next] = "}" THEN Parsed(PyDict(Append(acc, pair)), v.next + 1)
              ELSE IF s[v.next] = "," THEN ParseMembers(s, v.next + 1, Append(acc, pair))
              ELSE NoParse

\* json.loads(s): the value, or JSONDecodeError (no value, or extra data after it).
JsonLoads(s) ==
    LET v == ParseValue(s, 1) IN
    IF v.ok /\ v.next = Len(s) + 1 THEN Ok(v.val) ELSE Raise(JSONDecodeError)

\* ------------------------------------- main.py: extract_tool_executions
\* Faulty variant of ArgsDict: the arguments are never parsed.
ArgsDictRawOnly(arguments) == PyStr(arguments)

\* lines 208-211: try json.loads(arguments) except JSONDecodeError: the raw str
ArgsDict(arguments) ==
    LET loaded == JsonLoads(arguments) IN
    IF loaded.raised THEN PyStr(arguments) ELSE loaded.value

\* line 216: getattr(output_item, 'call_id', 'unknown')
CallId(output_item) == GetAttrDefault(output_item, "call_id", "unknown")

\* Faulty variant of IsToolCall: only the name is looked for.
IsToolCallNameOnly(output_item) == HasAttr(output_item, "name")

\* line 207: hasattr(output_item, 'name') and hasattr(output_item, 'arguments')
IsToolCall(output_item) ==
    HasAttr(output_item, "name") /\ HasAttr(output_item, "arguments")

\* lines 208-217: the entry appended for one tool-call item
ToolExecutionOf(output_item) ==
    LET name == GetAttr(output_item, "name")
        arguments == GetAttr(output_item, "arguments")
    IN  IF arguments.raised THEN arguments
        ELSE IF name.raised THEN name
        ELSE Ok([name |-> name.value,
                 arguments |-> ArgsDict(arguments.value),
                 call_id |-> CallId(output_item)])

RECURSIVE OutputLoop(_, _)
\* lines 206-217: for output_item in raw_response.output
OutputLoop(output, tool_executions) ==
    IF output = <<>> THEN Ok(tool_executions)
    ELSE IF IsToolCall(Head(output)) THEN
        LET entry == ToolExecutionOf(Head(output)) IN
        IF entry.raised THEN entry
        ELSE OutputLoop(Tail(output), Append(tool_executions, entry.value))
    ELSE OutputLoop(Tail(output), tool_executions)

RECURSIVE ResponsesLoop(_, _)
\* lines 202-217: for raw_response in result.raw_responses
ResponsesLoop(raw_responses, tool_executions) ==
    IF raw_responses = <<>> THEN Ok(tool_executions)
    ELSE IF ~HasAttr(Head(raw_responses), "output")
    THEN ResponsesLoop(Tail(raw_responses), tool_executions)
    ELSE LET inner == OutputLoop(Head(raw_responses).output, tool_executions) IN
         IF inner.raised THEN inner
         ELSE ResponsesLoop(Tail(raw_responses), inner.value)

extract_tool_executions(r) ==
    IF ~HasAttr(r, "raw_responses") THEN Ok(<<>>)
    ELSE ResponsesLoop(r.raw_responses, <<>>)

\* ----------------------------------------- main.py: extract_usage_info
ZeroUsage == [input |-> 0, output |-> 0, total |-> 0, cached |-> 0]

\* lines 230-241: the update made from the first record that has usage
UsageUpdate(usage_info, usage) ==
    LET updated == [usage_info EXCEPT
                       !.input = GetAttrDefault(usage, "input_tokens", 0),
                       !.output = GetAttrDefault(usage, "output_tokens", 0),
                       !.total = GetAttrDefault(usage, "total_tokens", 0)]
    IN  IF /\ HasAttr(usage, "input_tokens_details")
           /\ Truthy(usage.input_tokens_details)
           /\ HasAttr(usage.input_tokens_details, "cached_tokens")
        THEN [updated EXCEPT !.cached = usage.input_tokens_details.cached_tokens]
        ELSE updated

\* Faulty variant of UsageLoop: the break of line 242 missing.
RECURSIVE UsageLoopNoBreak(_, _)
UsageLoopNoBreak(raw_responses, usage_info) ==
    IF raw_responses = <<>> THEN usage_info
    ELSE IF HasAttr(Head(raw_responses), "usage")
    THEN UsageLoopNoBreak(Tail(raw_responses),
                          UsageUpdate(usage_info, Head(raw_responses).usage))
    ELSE UsageLoopNoBreak(Tail(raw_responses), usage_info)

RECURSIVE UsageLoop(_, _)
\* lines 228-242: for raw_response in result.raw_responses ... break
UsageLoop(raw_responses, usage_info) ==
    IF raw_responses = <<>> THEN usage_info
    ELSE IF HasAttr(Head(raw_responses), "usage")
    THEN UsageUpdate(usage_info, Head(raw_responses).usage)
    ELSE UsageLoop(Tail(raw_responses), usage_info)

extract_usage_info(r) ==
    IF ~HasAttr(r, "raw_responses") THEN Ok(ZeroUsage)
    ELSE Ok(UsageLoop(r.raw_responses, ZeroUsage))

\* str(result) of a RunResult
StrOfResult == <<"RunResult(...)">>

\* --------------------------------------------- main.py: chat, lines 152-170
ErrEmptyMessage == <<"please enter a message">>
ErrNoAgent == <<"the agent is not initialised; restart the application">>
ErrRateLimit == <<"rate limit reached; retry after 60 seconds">>
ErrExecutionPrefix == <<"execution error: ">>
RateLimitIndicator == <<"Rate", "LimitReached">>

ErrorResponse(error) == [template |-> "error_response.html", error |-> error]

\* lines 164-168
ErrorDetail(error_message) ==
    IF Contains(error_message, RateLimitIndicator) THEN ErrRateLimit
    ELSE ErrExecutionPrefix \o error_message

\* lines 163-170: except Exception as e
ChatExcept(e) == ErrorResponse(ErrorDetail(e.text))

\* lines 152-161, under the try of line 138: the response for a returned result
ChatResponseFor(r) ==
    LET tool_executions == extract_tool_executions(r)
        usage == extract_usage_info(r)
    IN  IF tool_executions.raised THEN ChatExcept(tool_executions.exc)
        ELSE IF usage.raised THEN ChatExcept(usage.exc)
        ELSE [template |-> "chat_response.html",
              response |-> [content |-> GetAttrDefault(r, "final_output", StrOfResult),
                            tool_executions |-> tool_executions.value,
                            usage |-> usage.value]]

\* ------------------------------- streamlit.py: stream_response, lines 81-166
\* lines 87-92: the first raw response that has usage, else None
RECURSIVE FirstUsage(_)
FirstUsage(raw_responses) ==
    IF raw_responses = <<>> THEN None
    ELSE IF HasAttr(Head(raw_responses), "usage") THEN Head(raw_responses).usage
    ELSE FirstUsage(Tail(raw_responses))

\* lines 94-106: the usage panel; the three metrics read the attributes directly
UsagePanel(usage_info) ==
    IF ~Truthy(usage_info) THEN Ok([found |-> FALSE])
    ELSE LET input == GetAttr(usage_info, "input_tokens")
             output == GetAttr(usage_info, "output_tokens")
             total == GetAttr(usage_info, "total_tokens")
         IN  IF input.raised THEN input
             ELSE IF output.raised THEN output
             ELSE IF total.raised THEN total
             ELSE Ok([found |-> TRUE,
                      input |-> input.value,
                      output |-> output.value,
                      total |-> total.value,
                      cached_shown |->
                          /\ HasAttr(usage_info, "input_tokens_details")
                          /\ Truthy(usage_info.input_tokens_details)
                          /\ HasAttr(usage_info.input_tokens_details, "cached_tokens"),
                      cached |->
                          IF /\ HasAttr(usage_info, "input_tokens_details")
                             /\ Truthy(usage_info.input_tokens_details)
                             /\ HasAttr(usage_info.input_tokens_details, "cached_tokens")
                          THEN usage_info.input_tokens_details.cached_tokens
                          ELSE 0])

\* lines 117-131: both branches of the try append the same entry shape
StreamToolExecutionOf(output_item) ==
    LET loaded == JsonLoads(output_item.arguments) IN
    [name |-> output_item.name,
     arguments |-> IF loaded.raised THEN PyStr(output_item.arguments) ELSE loaded.value,
     call_id |-> GetAttrDefault(output_item, "call_id", "unknown")]

RECURSIVE StreamOutputLoop(_, _)
StreamOutputLoop(output, tool_executions) ==
    IF output = <<>> THEN tool_executions
    ELSE IF HasAttr(Head(output), "name") /\ HasAttr(Head(output), "arguments")
    THEN StreamOutputLoop(Tail(output),
                          Append(tool_executions, StreamToolExecutionOf(Head(output))))
    ELSE StreamOutputLoop(Tail(output), tool_executions)

RECURSIVE StreamResponsesLoop(_, _)
StreamResponsesLoop(raw_responses, tool_executions) ==
    IF raw_responses = <<>> THEN tool_executions
    ELSE IF HasAttr(Head(raw_responses), "output")
    THEN StreamResponsesLoop(Tail(raw_responses),
                             StreamOutputLoop(Head(raw_responses).output, tool_executions))
    ELSE StreamResponsesLoop(Tail(raw_responses), tool_executions)

\* lines 109-131
StreamToolExecutions(r) ==
    IF HasAttr(r, "raw_responses") THEN StreamResponsesLoop(r.raw_responses, <<>>)
    ELSE <<>>

\* lines 81-166: what stream_response shows for a returned result, in order: the
\* answer, the usage panel, the tool panel (or the no-tools notice).  An
\* AttributeError in the usage panel leaves the try before the tool panel.
StreamView(r) ==
    LET usage == UsagePanel(IF HasAttr(r, "raw_responses")
                            THEN FirstUsage(r.raw_responses) ELSE None)
    IN  IF usage.raised THEN usage
        ELSE Ok([cls |-> "view",
                 content |-> GetAttrDefault(r, "final_output", StrOfResult),
                 usage |-> usage.value,
                 tool_executions |-> StreamToolExecutions(r),
                 no_tools_notice |-> StreamToolExecutions(r) = <<>>])

UiErrRateLimit == <<"rate limit reached; retry after 60 seconds">>
UiErrPrefix == <<"an error occurred: ">>

\* lines 169-174: the text given to text_holder.error
UiErrorText(error_message) ==
    IF Contains(error_message, RateLimitIndicator) THEN UiErrRateLimit
    ELSE UiErrPrefix \o error_message

\* ----------------------------------------------- the RunResults extracted
\* The objects of S, and each of them with the attribute f set to a value of vs.
AddOptional(S, f, vs) == S \cup {o @@ (f :> v) : o \in S, v \in vs}

ArgStrings ==
    { <<"{", "\"q\"", ":", "\"k\"", "}">>,      \* {"q": "k"}
      <<"{", "}">>,
      <<"[", "1", ",", "1", "]">>,
      <<"1">>,
      <<"\"k\"">>,
      <<"not json">>,
      <<"{">>,
      <<>>,
      <<"1", "1">>,
      <<"{", "\"q\"", ":", "}">> }

\* Every shape of output item: each of name, arguments, call_id there or not.
AllItems ==
    AddOptional(AddOptional(AddOptional({[cls |-> "OutputItem"]},
        "name", {"search_docs"}), "arguments", ArgStrings), "call_id", {"c1"})

ToolCallA ==
    [cls |-> "OutputItem", name |-> "search_docs",
     arguments |-> <<"{", "\"q\"", ":", "\"k\"", "}">>, call_id |-> "c1"]
ToolCallB ==
    [cls |-> "OutputItem", name |-> "read_documentation", arguments |-> <<"not json">>]
MessageItem == [cls |-> "OutputItem", content |-> <<"text">>]

\* Raw responses that differ in their output items.
OutputRecords ==
    {[cls |-> "ModelResponse"]} \cup
    {[cls |-> "ModelResponse", output |-> o] :
        o \in SeqsUpTo({ToolCallA, ToolCallB, MessageItem}, MaxItems)}

Details == {None, [cls |-> "InputTokensDetails"],
            [cls |-> "InputTokensDetails", cached_tokens |-> 7]}

Usages ==
    AddOptional(AddOptional(AddOptional(AddOptional({[cls |-> "Usage"]},
        "input_tokens", {10}), "output_tokens", {5}), "total_tokens", {15}),
        "input_tokens_details", Details)

\* Raw responses that differ in their usage record.
UsageRecords ==
    {[cls |-> "ModelResponse", output |-> <<>>]} \cup
    {[cls |-> "ModelResponse", output |-> <<>>, usage |-> u] : u \in Usages \cup {None}}

\* A RunResult with a final answer and these raw responses.
ResultWith(raw_responses) ==
    [cls |-> "RunResult", final_output |-> <<"answer">>, raw_responses |-> raw_responses]

\* RunResults without raw responses, and one without a final answer.
BareResults ==
    {[cls |-> "RunResult"], [cls |-> "RunResult", final_output |-> <<"answer">>],
     [cls |-> "RunResult", raw_responses |-> <<>>]}

\* r is one of the RunResults extracted: a bare one, one whose raw responses
\* differ in their output items, one with a single item of any shape, or one
\* whose raw responses differ in their usage records.
IsRunResult(r) ==
    \/ r \in BareResults
    \/ \E n \in 0..MaxRecords : \E rs \in [1..n -> OutputRecords] : r = ResultWith(rs)
    \/ \E item \in AllItems :
          r = ResultWith(<<[cls |-> "ModelResponse", output |-> <<item>>]>>)
    \/ \E n \in 0..MaxRecords : \E rs \in [1..n -> UsageRecords] : r = ResultWith(rs)

NotYet == [cls |-> "pending"]

\* ------------------------------------------ the extractors on one RunResult
\* main.py lines 150-161: Runner.run returned `result`; chat builds its response.
ChatRender ==
    /\ frontend = "extractors"
    /\ svc_out = NotYet
    /\ svc_out' = ChatResponseFor(result)
    /\ UNCHANGED <<frontend, env, svc_vars, ui_vars, result, ui_out>>

\* streamlit.py lines 78-166: Runner.run returned `result`; stream_response
\* derives what it shows.
StreamRender ==
    /\ frontend = "extractors"
    /\ ui_out = NotYet
    /\ ui_out' = StreamView(result)
    /\ UNCHANGED <<frontend, env, svc_vars, ui_vars, result, svc_out>>

\* Values of the variables a specification does not use.
ServiceIdle ==
    /\ mcp_server = None
    /\ agent = None
    /\ available_tools = <<>>
    /\ lifespan_pc = "not_started"
    /\ svc_conn = [entered |-> FALSE, aexit_calls |-> 0, aexit_raised |-> FALSE]
    /\ lifespan_exc = NoExc
    /\ startup_failure = "none"
    /\ in_flight = 0
    /\ last = NotYet

\* What a run has put on the page when it starts: nothing.
NothingShown ==
    [tools |-> NotYet, text_holder |-> NotYet, view |-> NotYet,
     error_arg |-> NotYet, page_error |-> NotYet]

UiIdle ==
    /\ ui_pc = "idle"
    /\ ui_conn = [entered |-> FALSE, aexit_calls |-> 0]
    /\ ui_exc = NoExc
    /\ ui_run = [calls |-> 0, raised |-> NoExc]
    /\ ui_shown = NothingShown

InitExtract ==
    /\ frontend = "extractors"
    /\ env = {}
    /\ ServiceIdle
    /\ UiIdle
    /\ IsRunResult(result)
    /\ svc_out = NotYet
    /\ ui_out = NotYet

NextExtract == ChatRender \/ StreamRender

SpecExtract == InitExtract /\ [][NextExtract]_vars

\* ------------------------------------------------ main.py: the service
TheServer == [cls |-> "MCPServerStdio", command |-> "uvx"]
TheAgent == [cls |-> "Agent", name |-> "Assistant"]
TheTool == [cls |-> "Tool", name |-> "search_documentation",
            description |-> "Search AWS documentation"]

\* What list_tools() may return.
ToolLists == {<<>>, <<TheTool>>}

\* The AZURE_OPENAI_* names check_configuration requires.
RequiredEnv == {"AZURE_OPENAI_ENDPOINT", "AZURE_OPENAI_API_KEY",
                "AZURE_OPENAI_DEPLOYMENT_NAME"}

\* Texts of the errors a run may raise: fragments, of which "Rate" followed
\* by "LimitReached" spells the rate-limit indicator.
ErrTexts == SeqsUpTo({"Rate", "LimitReached", "x"}, MaxErrLen)

RunError(text) == Exc("Exception", "run", text)

\* RunResults a run may return to a request or to a button press.
SampleResults ==
    { [cls |-> "RunResult", final_output |-> <<"answer">>,
       raw_responses |-> <<[cls |-> "ModelResponse", output |-> <<ToolCallA>>,
                            usage |-> [cls |-> "Usage", input_tokens |-> 10,
                                       output_tokens |-> 5, total_tokens |-> 15]]>>],
      [cls |-> "RunResult", final_output |-> <<"answer">>,
       raw_responses |-> <<[cls |-> "ModelResponse", output |-> <<MessageItem>>,
                            usage |-> [cls |-> "Usage", output_tokens |-> 5]]>>],
      [cls |-> "RunResult", final_output |-> <<"answer">>] }

\* The submitted forms: without the field message, or with it.
Forms ==
    {[cls |-> "FormData"]} \cup
    {[cls |-> "FormData", message |-> m] : m \in SeqsUpTo({" ", "a"}, MaxMsgLen)}

RECURSIVE LStrip(_)
LStrip(m) == IF m # <<>> /\ Head(m) = " " THEN LStrip(Tail(m)) ELSE m

RECURSIVE RStrip(_)
RStrip(m) ==
    IF m # <<>> /\ m[Len(m)] = " " THEN RStrip(SubSeq(m, 1, Len(m) - 1)) ELSE m

\* str.strip()
Strip(m) == LStrip(RStrip(m))

\* Faulty variant of LifespanExcept: available_tools is not reset.
LifespanExceptKeepsTools(step) ==
    /\ agent' = None
    /\ lifespan_pc' = "serving"
    /\ startup_failure' = step
    /\ UNCHANGED available_tools

\* lines 41-44: except Exception; then line 46, the yield
LifespanExcept(step) ==
    /\ available_tools' = <<>>
    /\ agent' = None
    /\ lifespan_pc' = "serving"
    /\ startup_failure' = step

\* The server starts the application: lifespan() is entered.
LifespanStart ==
    /\ frontend = "service"
    /\ lifespan_pc = "not_started"
    /\ lifespan_pc' = "create_mcp_server"
    /\ UNCHANGED <<frontend, env, mcp_server, agent, available_tools, svc_conn,
                   lifespan_exc, startup_failure, in_flight, last, ui_vars,
                   extract_vars>>

\* line 37: mcp_server = create_mcp_server()
CreateMcpServer ==
    /\ frontend = "service"
    /\ lifespan_pc = "create_mcp_server"
    /\ \/ /\ mcp_server' = TheServer
          /\ lifespan_pc' = "aenter"
          /\ UNCHANGED <<agent, available_tools, startup_failure>>
       \/ /\ LifespanExcept("create_mcp_server")
          /\ UNCHANGED mcp_server
    /\ UNCHANGED <<frontend, env, svc_conn, lifespan_exc, in_flight, last, ui_vars,
                   extract_vars>>

\* line 38: await mcp_server.__aenter__()
Aenter ==
    /\ frontend = "service"
    /\ lifespan_pc = "aenter"
    /\ \/ /\ svc_conn' = [svc_conn EXCEPT !.entered = TRUE]
          /\ lifespan_pc' = "list_tools"
          /\ UNCHANGED <<agent, available_tools, startup_failure>>
       \/ /\ LifespanExcept("aenter")
          /\ UNCHANGED svc_conn
    /\ UNCHANGED <<frontend, env, mcp_server, lifespan_exc, in_flight, last, ui_vars,
                   extract_vars>>

\* line 39: available_tools = await mcp_server.list_tools()
ListTools ==
    /\ frontend = "service"
    /\ lifespan_pc = "list_tools"
    /\ \/ /\ \E tools \in ToolLists : available_tools' = tools
          /\ lifespan_pc' = "create_agent"
          /\ UNCHANGED <<agent, startup_failure>>
       \/ LifespanExcept("list_tools")
    /\ UNCHANGED <<frontend, env, mcp_server, svc_conn, lifespan_exc, in_flight, last,
                   ui_vars, extract_vars>>

\* line 40: agent = create_agent(mcp_server, create_azure_openai_client())
CreateAgent ==
    /\ frontend = "service"
    /\ lifespan_pc = "create_agent"
    /\ \/ /\ agent' = TheAgent
          /\ lifespan_pc' = "serving"
          /\ UNCHANGED <<available_tools, startup_failure>>
       \/ LifespanExcept("create_azure_openai_client")
       \/ LifespanExcept("create_agent")
    /\ UNCHANGED <<frontend, env, mcp_server, svc_conn, lifespan_exc, in_flight, last,
                   ui_vars, extract_vars>>

\* Faulty variant of SafeCleanup: no try around the __aexit__.
SafeCleanupNoTry(server, aexit_raises) ==
    IF Truthy(server)
    THEN /\ svc_conn' = [svc_conn EXCEPT !.aexit_calls = @ + 1,
                                         !.aexit_raised = aexit_raises]
         /\ lifespan_exc' = IF aexit_raises
                            THEN Exc("Exception", "aexit", <<"x">>) ELSE NoExc
    ELSE UNCHANGED <<svc_conn, lifespan_exc>>

\* lines 98-104: safe_cleanup
SafeCleanup(server, aexit_raises) ==
    IF Truthy(server)
    THEN /\ svc_conn' = [svc_conn EXCEPT !.aexit_calls = @ + 1,
                                         !.aexit_raised = aexit_raises]
         /\ lifespan_exc' = NoExc
    ELSE UNCHANGED <<svc_conn, lifespan_exc>>

\* lines 48-49: the server shuts down, once its requests are answered
Shutdown ==
    /\ frontend = "service"
    /\ lifespan_pc = "serving"
    /\ in_flight = 0
    /\ \E aexit_raises \in BOOLEAN : SafeCleanup(mcp_server, aexit_raises)
    /\ lifespan_pc' = "stopped"
    /\ UNCHANGED <<frontend, env, mcp_server, agent, available_tools, startup_failure,
                   in_flight, last, ui_vars, extract_vars>>

\* lines 115-117: get_tools_list
get_tools_list ==
    [i \in 1..Len(available_tools) |->
        [name |-> available_tools[i].name, description |-> available_tools[i].description]]

\* lines 122-127, 183-188
Config ==
    [endpoint |-> "AZURE_OPENAI_ENDPOINT" \in env,
     deployment |-> "AZURE_OPENAI_DEPLOYMENT_NAME" \in env]

Answer(route, response) == [route |-> route, response |-> response]

\* Faulty variant of ReadRoot: the handler drops the cached tool list.
ReadRootRefreshes ==
    /\ frontend = "service"
    /\ lifespan_pc = "serving"
    /\ available_tools' = <<>>
    /\ last' = Answer("GET /", [template |-> "index.html", config |-> Config,
                                available_tools |-> <<>>])
    /\ UNCHANGED <<frontend, env, mcp_server, agent, lifespan_pc, svc_conn,
                   lifespan_exc, startup_failure, in_flight, ui_vars, extract_vars>>

\* lines 119-133: GET /
ReadRoot ==
    /\ frontend = "service"
    /\ lifespan_pc = "serving"
    /\ last' = Answer("GET /", [template |-> "index.html", config |-> Config,
                                available_tools |-> get_tools_list])
    /\ UNCHANGED <<frontend, env, mcp_server, agent, available_tools, lifespan_pc,
                   svc_conn, lifespan_exc, startup_failure, in_flight, ui_vars,
                   extract_vars>>

\* lines 172-178: GET /api/tools
GetTools ==
    /\ frontend = "service"
    /\ lifespan_pc = "serving"
    /\ last' = Answer("GET /api/tools", [template |-> "tools_list.html",
                                         tools |-> get_tools_list])
    /\ UNCHANGED <<frontend, env, mcp_server, agent, available_tools, lifespan_pc,
                   svc_conn, lifespan_exc, startup_failure, in_flight, ui_vars,
                   extract_vars>>

\* lines 180-193: GET /api/settings
GetSettings ==
    /\ frontend = "service"
    /\ lifespan_pc = "serving"
    /\ last' = Answer("GET /api/settings", [template |-> "settings_modal.html",
                                            config |-> Config])
    /\ UNCHANGED <<frontend, env, mcp_server, agent, available_tools, lifespan_pc,
                   svc_conn, lifespan_exc, startup_failure, in_flight, ui_vars,
                   extract_vars>>

ChatAnswer(form, runs, raised, response) ==
    [route |-> "POST /api/chat", form |-> form, runs |-> runs, raised |-> raised,
     response |-> response]

\* The answer to a request that awaited Runner.run.
RunAnswer(raised, response) ==
    [route |-> "POST /api/chat", runs |-> 1, raised |-> raised, response |-> response]

\* Faulty variant of ChatChecks: the agent is checked before the message.
ChatChecksAgentFirst(form) ==
    LET message == Strip(GetAttrDefault(form, "message", <<>>)) IN
    IF ~Truthy(agent)
    THEN /\ last' = ChatAnswer(form, 0, NoExc, ErrorResponse(ErrNoAgent))
         /\ UNCHANGED in_flight
    ELSE IF message = <<>>
    THEN /\ last' = ChatAnswer(form, 0, NoExc, ErrorResponse(ErrEmptyMessage))
         /\ UNCHANGED in_flight
    ELSE /\ in_flight < MaxRequests
         /\ in_flight' = in_flight + 1
         /\ UNCHANGED last

\* lines 140-150: the form, the two checks, then the await of Runner.run
ChatChecks(form) ==
    LET message == Strip(GetAttrDefault(form, "message", <<>>)) IN
    IF message = <<>>
    THEN /\ last' = ChatAnswer(form, 0, NoExc, ErrorResponse(ErrEmptyMessage))
         /\ UNCHANGED in_flight
    ELSE IF ~Truthy(agent)
    THEN /\ last' = ChatAnswer(form, 0, NoExc, ErrorResponse(ErrNoAgent))
         /\ UNCHANGED in_flight
    ELSE /\ in_flight < MaxRequests
         /\ in_flight' = in_flight + 1
         /\ UNCHANGED last

\* lines 135-150: POST /api/chat, up to the await of Runner.run
Chat ==
    /\ frontend = "service"
    /\ lifespan_pc = "serving"
    /\ \E form \in Forms : ChatChecks(form)
    /\ UNCHANGED <<frontend, env, mcp_server, agent, available_tools, lifespan_pc,
                   svc_conn, lifespan_exc, startup_failure, ui_vars, extract_vars>>

\* lines 150-161: Runner.run returns; the response is built and returned
ChatRunReturns ==
    /\ frontend = "service"
    /\ in_flight > 0
    /\ in_flight' = in_flight - 1
    /\ \E r \in SampleResults : last' = RunAnswer(NoExc, ChatResponseFor(r))
    /\ UNCHANGED <<frontend, env, mcp_server, agent, available_tools, lifespan_pc,
                   svc_conn, lifespan_exc, startup_failure, ui_vars, extract_vars>>

\* lines 150, 163-170: Runner.run raises; except Exception returns the error
ChatRunRaises ==
    /\ frontend = "service"
    /\ in_flight > 0
    /\ in_flight' = in_flight - 1
    /\ \E text \in ErrTexts :
          last' = RunAnswer(RunError(text), ChatExcept(RunError(text)))
    /\ UNCHANGED <<frontend, env, mcp_server, agent, available_tools, lifespan_pc,
                   svc_conn, lifespan_exc, startup_failure, ui_vars, extract_vars>>

\* --------------------------------------- streamlit.py: one run per press
ErrorBox(text) == [cls |-> "error", text |-> text]
WidgetError == Exc("Exception", "render", <<"x">>)

\* lines 193-203: check_configuration
check_configuration == RequiredEnv \ env

\* lines 206-214: the button is pressed (the script reruns from a clean page)
Press ==
    /\ frontend = "interactive"
    /\ ui_pc \in {"idle", "done"}
    /\ ui_conn' = [entered |-> FALSE, aexit_calls |-> 0]
    /\ ui_exc' = NoExc
    /\ ui_run' = [calls |-> 0, raised |-> NoExc]
    /\ IF check_configuration # {}
       THEN /\ ui_shown' = [NothingShown EXCEPT
                               !.page_error = [cls |-> "config_error",
                                               missing |-> check_configuration]]
            /\ ui_pc' = "done"
       ELSE /\ ui_shown' = NothingShown
            /\ ui_pc' = "create"
    /\ UNCHANGED <<frontend, env, svc_vars, extract_vars>>

\* lines 178-179: create_mcp_server(), create_azure_openai_client()
UiCreate ==
    /\ frontend = "interactive"
    /\ ui_pc = "create"
    /\ \/ /\ ui_pc' = "aenter"
          /\ UNCHANGED ui_exc
       \/ /\ ui_pc' = "except"
          /\ ui_exc' = Exc("Exception", "create", <<"x">>)
    /\ UNCHANGED <<frontend, env, svc_vars, extract_vars, ui_conn, ui_run, ui_shown>>

\* line 181: async with mcp_server, the __aenter__
UiAenter ==
    /\ frontend = "interactive"
    /\ ui_pc = "aenter"
    /\ \/ /\ ui_conn' = [ui_conn EXCEPT !.entered = TRUE]
          /\ ui_pc' = "list_tools"
          /\ UNCHANGED ui_exc
       \/ /\ ui_pc' = "except"
          /\ ui_exc' = Exc("Exception", "aenter", <<"x">>)
          /\ UNCHANGED ui_conn
    /\ UNCHANGED <<frontend, env, svc_vars, extract_vars, ui_run, ui_shown>>

\* Faulty variant of LeaveBody: the connection is closed by hand after the
\* body, so an exception skips the close.
LeaveBodyUnscoped(e) ==
    /\ ui_exc' = e
    /\ ui_pc' = IF e = NoExc THEN "aexit" ELSE "except"

\* line 181: the body of the async with is left, normally (NoExc) or by e
LeaveBody(e) ==
    /\ ui_exc' = e
    /\ ui_pc' = "aexit"

\* lines 183-190 and 74: list_tools, the tools panel, create_agent, and
\* stream_response up to its await of Runner.run
UiListTools ==
    /\ frontend = "interactive"
    /\ ui_pc = "list_tools"
    /\ \/ /\ LeaveBody(Exc("Exception", "list_tools", <<"x">>))
          /\ UNCHANGED <<ui_run, ui_shown>>
       \/ \E tools \in ToolLists :
            \/ /\ tools # <<>>
               /\ LeaveBody(WidgetError)
               /\ UNCHANGED <<ui_run, ui_shown>>
            \/ /\ ui_shown' = [ui_shown EXCEPT !.tools = IF tools # <<>> THEN tools ELSE NotYet]
               /\ \/ /\ LeaveBody(Exc("Exception", "create_agent", <<"x">>))
                     /\ UNCHANGED ui_run
                  \/ /\ LeaveBody(WidgetError)
                     /\ UNCHANGED ui_run
                  \/ /\ ui_run' = [ui_run EXCEPT !.calls = @ + 1]
                     /\ ui_pc' = "run"
                     /\ UNCHANGED ui_exc
    /\ UNCHANGED <<frontend, env, svc_vars, extract_vars, ui_conn>>

\* lines 168-174: except Exception as e, in stream_response
StreamExcept(e, shown, sink_fails) ==
    /\ ui_shown' = [shown EXCEPT
                        !.error_arg = UiErrorText(e.text),
                        !.text_holder = IF sink_fails THEN @
                                        ELSE ErrorBox(UiErrorText(e.text))]
    /\ LeaveBody(IF sink_fails THEN WidgetError ELSE NoExc)

\* lines 78-166: Runner.run returns and the result is shown
UiRunReturns ==
    /\ frontend = "interactive"
    /\ ui_pc = "run"
    /\ \E r \in SampleResults, widget_fails, sink_fails \in BOOLEAN :
          LET view == StreamView(r)
              answer == [cls |-> "markdown",
                         text |-> GetAttrDefault(r, "final_output", StrOfResult)]
          IN  IF view.raised
              THEN StreamExcept(view.exc, [ui_shown EXCEPT !.text_holder = answer],
                                sink_fails)
              ELSE IF widget_fails
              THEN StreamExcept(WidgetError, [ui_shown EXCEPT !.text_holder = answer],
                                sink_fails)
              ELSE /\ sink_fails = FALSE
                   /\ ui_shown' = [ui_shown EXCEPT !.text_holder = answer,
                                                   !.view = view.value]
                   /\ LeaveBody(NoExc)
    /\ UNCHANGED <<frontend, env, svc_vars, extract_vars, ui_conn, ui_run>>

\* lines 78, 168-174: Runner.run raises
UiRunRaises ==
    /\ frontend = "interactive"
    /\ ui_pc = "run"
    /\ \E text \in ErrTexts, sink_fails \in BOOLEAN :
          /\ ui_run' = [ui_run EXCEPT !.raised = RunError(text)]
          /\ StreamExcept(RunError(text), ui_shown, sink_fails)
    /\ UNCHANGED <<frontend, env, svc_vars, extract_vars, ui_conn>>

\* line 181: async with mcp_server, the __aexit__; what it raises replaces
\* the exception that left the body
UiAexit ==
    /\ frontend = "interactive"
    /\ ui_pc = "aexit"
    /\ ui_conn' = [ui_conn EXCEPT !.aexit_calls = @ + 1]
    /\ \/ UNCHANGED ui_exc
       \/ ui_exc' = Exc("Exception", "aexit", <<"x">>)
    /\ ui_pc' = "except"
    /\ UNCHANGED <<frontend, env, svc_vars, extract_vars, ui_run, ui_shown>>

\* lines 223-226: except Exception as e: st.error; finally: loop.close()
UiExceptFinally ==
    /\ frontend = "interactive"
    /\ ui_pc = "except"
    /\ ui_shown' = IF ui_exc = NoExc THEN ui_shown
                   ELSE [ui_shown EXCEPT
                            !.page_error = ErrorBox(ErrExecutionPrefix \o ui_exc.text)]
    /\ ui_exc' = NoExc
    /\ ui_pc' = "done"
    /\ UNCHANGED <<frontend, env, svc_vars, extract_vars, ui_conn, ui_run>>

\* ------------------------------------------------------- the two frontends
Init ==
    /\ frontend \in {"service", "interactive"}
    /\ env \in SUBSET RequiredEnv
    /\ ServiceIdle
    /\ UiIdle
    /\ result = NotYet
    /\ svc_out = NotYet
    /\ ui_out = NotYet

Next ==
    \/ LifespanStart \/ CreateMcpServer \/ Aenter \/ ListTools \/ CreateAgent
    \/ ReadRoot \/ GetTools \/ GetSettings \/ Chat \/ ChatRunReturns \/ ChatRunRaises
    \/ Shutdown
    \/ Press \/ UiCreate \/ UiAenter \/ UiListTools \/ UiRunReturns \/ UiRunRaises
    \/ UiAexit \/ UiExceptFinally

Spec == Init /\ [][Next]_vars

\* =================================================================== claims
\* What the claims say of a RunResult, written without the extractors' loops.
RawResponsesOf(r) == IF HasAttr(r, "raw_responses") THEN r.raw_responses ELSE <<>>

RECURSIVE Flatten(_)
Flatten(ss) == IF ss = <<>> THEN <<>> ELSE Head(ss) \o Flatten(Tail(ss))

AllOutputItems(r) ==
    Flatten([i \in 1..Len(RawResponsesOf(r)) |->
                IF HasAttr(RawResponsesOf(r)[i], "output")
                THEN RawResponsesOf(r)[i].output ELSE <<>>])

QualifyingItem(item) == "name" \in DOMAIN item /\ "arguments" \in DOMAIN item

ExpectedEntry(item) ==
    [name |-> item.name,
     arguments |-> IF JsonLoads(item.arguments).raised
                   THEN PyStr(item.arguments)
                   ELSE JsonLoads(item.arguments).value,
     call_id |-> IF "call_id" \in DOMAIN item THEN item.call_id ELSE "unknown"]

ExpectedToolExecutions(r) ==
    LET calls == SelectSeq(AllOutputItems(r), QualifyingItem)
    IN  [k \in 1..Len(calls) |-> ExpectedEntry(calls[k])]

UsageIndexes(r) ==
    {i \in 1..Len(RawResponsesOf(r)) : "usage" \in DOMAIN RawResponsesOf(r)[i]}

Count(u, f) == IF f \in DOMAIN u THEN u[f] ELSE 0

ExpectedUsage(r) ==
    IF UsageIndexes(r) = {} THEN [input |-> 0, output |-> 0, total |-> 0, cached |-> 0]
    ELSE LET first == CHOOSE i \in UsageIndexes(r) : \A j \in UsageIndexes(r) : i <= j
             u == RawResponsesOf(r)[first].usage
         IN  [input |-> Count(u, "input_tokens"),
              output |-> Count(u, "output_tokens"),
              total |-> Count(u, "total_tokens"),
              cached |-> IF "input_tokens_details" \in DOMAIN u
                         THEN Count(u.input_tokens_details, "cached_tokens")
                         ELSE 0]

ChatRendered == svc_out # NotYet
ChatSucceeded == ChatRendered /\ svc_out.template = "chat_response.html"

\* Some consumed field of the RunResult is missing.
SomeFieldMissing(r) ==
    \/ ~HasAttr(r, "raw_responses")
    \/ \E i \in 1..Len(RawResponsesOf(r)) :
          LET rec == RawResponsesOf(r)[i] IN
          \/ ~HasAttr(rec, "output")
          \/ ~HasAttr(rec, "usage")
          \/ HasAttr(rec, "usage") /\
                \E f \in {"input_tokens", "output_tokens", "total_tokens",
                          "input_tokens_details"} : ~HasAttr(rec.usage, f)
          \/ HasAttr(rec, "output") /\
                \E k \in 1..Len(rec.output) :
                    \E f \in {"name", "arguments", "call_id"} : ~HasAttr(rec.output[k], f)

\* C6: whatever consumed field of the RunResult is missing, neither extractor
\* raises, the chat request returns the success fragment, and what is missing
\* shows as the empty sequence or as zero counts.
C6_ExtractionNeverFails ==
    ChatRendered =>
        /\ ~extract_tool_executions(result).raised
        /\ ~extract_usage_info(result).raised
        /\ svc_out.template = "chat_response.html"
        /\ (~HasAttr(result, "raw_responses") =>
                /\ svc_out.response.tool_executions = <<>>
                /\ svc_out.response.usage = ZeroUsage)
        /\ (UsageIndexes(result) = {} => svc_out.response.usage = ZeroUsage)
        /\ (SelectSeq(AllOutputItems(result), QualifyingItem) = <<>> =>
                svc_out.response.tool_executions = <<>>)

\* C6 witness: the chat response was built from a RunResult holding an item
\* that has a name and no arguments, beside a usage record without token counts.
C6_Witness ==
    /\ ChatSucceeded
    /\ SomeFieldMissing(result)
    /\ \E i \in 1..Len(AllOutputItems(result)) :
          /\ HasAttr(AllOutputItems(result)[i], "name")
          /\ ~HasAttr(AllOutputItems(result)[i], "arguments")

\* C7: the usage returned is that of the first raw response carrying a usage
\* record, missing counts as 0, and {0,0,0,0} when no record carries one;
\* later records never influence it.
C7_FirstMatchWins ==
    ChatRendered =>
        /\ svc_out.template = "chat_response.html"
        /\ svc_out.response.usage = ExpectedUsage(result)

\* C7 witness: two raw responses carry usage records with different counts and
\* the response holds the first one's.
C7_Witness ==
    /\ ChatSucceeded
    /\ Cardinality(UsageIndexes(result)) >= 2
    /\ \E i, j \in UsageIndexes(result) :
          /\ i < j
          /\ Count(result.raw_responses[i].usage, "input_tokens") = 0
          /\ Count(result.raw_responses[j].usage, "input_tokens") = 10
          /\ Count(result.raw_responses[i].usage, "output_tokens") = 5
    /\ svc_out.response.usage.input = 0
    /\ svc_out.response.usage.output = 5

\* C8: one entry per output item that has both name and arguments, in the order
\* of the items across all raw responses, no deduplication; arguments is the
\* parsed JSON value or else the raw string; call_id defaults to "unknown".
C8_ToolExecutionsInOrder ==
    ChatRendered =>
        /\ svc_out.template = "chat_response.html"
        /\ svc_out.response.tool_executions = ExpectedToolExecutions(result)

\* C8 witness: a record with the same call twice, then a record with a
\* non-tool item and a non-JSON call without call_id: three entries in that
\* order, the JSON arguments parsed to a dict, the other kept as the raw string.
C8_Witness ==
    /\ ChatSucceeded
    /\ Len(RawResponsesOf(result)) = 2
    /\ result.raw_responses[1] = [cls |-> "ModelResponse", output |-> <<ToolCallA, ToolCallA>>]
    /\ result.raw_responses[2] = [cls |-> "ModelResponse", output |-> <<MessageItem, ToolCallB>>]
    /\ svc_out.response.tool_executions =
          << [name |-> "search_docs",
              arguments |-> PyDict(<< <<(<<"q">>), PyStr(<<"k">>)>> >>),
              call_id |-> "c1"],
             [name |-> "search_docs",
              arguments |-> PyDict(<< <<(<<"q">>), PyStr(<<"k">>)>> >>),
              call_id |-> "c1"],
             [name |-> "read_documentation",
              arguments |-> PyStr(<<"not json">>),
              call_id |-> "unknown"] >>

\* C10: for every RunResult the interactive surface derives the same tool
\* executions and the same usage counts as the service surface returns, and
\* neither reports an error where the other renders.
C10_SurfacesAgree ==
    (ChatRendered /\ ui_out # NotYet) =>
        /\ ui_out.raised <=> svc_out.template = "error_response.html"
        /\ (~ui_out.raised /\ ChatSucceeded) =>
              /\ ui_out.value.tool_executions = svc_out.response.tool_executions
              /\ ui_out.value.content = svc_out.response.content
              /\ ui_out.value.usage.found =>
                    /\ ui_out.value.usage.input = svc_out.response.usage.input
                    /\ ui_out.value.usage.output = svc_out.response.usage.output
                    /\ ui_out.value.usage.total = svc_out.response.usage.total
                    /\ ui_out.value.usage.cached = svc_out.response.usage.cached
              /\ ~ui_out.value.usage.found => svc_out.response.usage = ZeroUsage

\* The rate-limit indicator occurs in the text.
HasIndicator(text) ==
    \E i \in 1..(Len(text) - 1) : text[i] = "Rate" /\ text[i + 1] = "LimitReached"

ChatAnswered == last # NotYet /\ last.route = "POST /api/chat"

MessageOf(form) == IF "message" \in DOMAIN form THEN form.message ELSE <<>>

\* A message that is empty or only whitespace.
Blank(m) == \A i \in 1..Len(m) : m[i] = " "

\* C1: in the interactive frontend a run whose connection was entered has its
\* teardown executed exactly once by the time the run ends, on every exit path;
\* it is never executed while the body still runs, nor for a connection that
\* was not entered.
C1_TeardownExactlyOnce ==
    /\ ui_conn.aexit_calls <= 1
    /\ ~ui_conn.entered => ui_conn.aexit_calls = 0
    /\ ui_pc \in {"list_tools", "run", "aexit"} => ui_conn.entered /\ ui_conn.aexit_calls = 0
    /\ (ui_pc \in {"except", "done"} /\ ui_conn.entered) => ui_conn.aexit_calls = 1

\* C1 witness: a run ended after the agent run raised and an exception reached
\* the button handler, with the connection entered and torn down once.
C1_Witness ==
    /\ ui_pc = "done"
    /\ ui_conn.entered
    /\ ui_conn.aexit_calls = 1
    /\ ui_run.raised # NoExc
    /\ ui_shown.page_error # NotYet

\* C2: a failure at any startup step leaves the service serving with no agent
\* and an empty tool list, and from then on a chat request with a non-empty
\* message is answered with the agent-unavailable error, no run being invoked.
C2_StartupFailureDegrades ==
    startup_failure # "none" =>
        /\ lifespan_pc \in {"serving", "stopped"}
        /\ agent = None
        /\ available_tools = <<>>
        /\ in_flight = 0
        /\ ChatAnswered =>
              /\ last.runs = 0
              /\ ~Blank(MessageOf(last.form)) =>
                    last.response = ErrorResponse(ErrNoAgent)

\* C2 witness: startup failed at create_agent, after tools had been listed,
\* and a chat request with a non-empty message got the agent-unavailable error.
C2_Witness ==
    /\ startup_failure = "create_agent"
    /\ lifespan_pc = "serving"
    /\ ChatAnswered
    /\ MessageOf(last.form) = <<" ", "a">>
    /\ last.response = ErrorResponse(ErrNoAgent)

SharedStateKept ==
    (lifespan_pc \in {"serving", "stopped"}) =>
        /\ agent' = agent
        /\ available_tools' = available_tools
        /\ mcp_server' = mcp_server

C4_EmptyMessageFirst ==
    (ChatAnswered /\ HasAttr(last, "form") /\ Blank(MessageOf(last.form))) =>
        /\ last.response = ErrorResponse(ErrEmptyMessage)
        /\ last.runs = 0

\* C4 witness: no agent was initialised and a whitespace-only message still got
\* the please-enter-a-message error, not the agent-unavailable one.
C4_Witness ==
    /\ ChatAnswered
    /\ HasAttr(last, "form")
    /\ MessageOf(last.form) = <<" ", " ">>
    /\ agent = None
    /\ last.response = ErrorResponse(ErrEmptyMessage)

\* C5: an error raised by the agent run is caught where the run was awaited
\* and turned into a message: the fixed 60-second message when its text
\* contains the rate-limit indicator, else the generic prefix followed by the
\* text; it never leaves chat() or stream_response(), and the run is not retried.
C5_RunErrorsRendered ==
    /\ (ChatAnswered /\ last.runs > 0 /\ last.raised # NoExc) =>
          /\ last.runs = 1
          /\ last.response =
                ErrorResponse(IF HasIndicator(last.raised.text) THEN ErrRateLimit
                              ELSE ErrExecutionPrefix \o last.raised.text)
    /\ ui_run.raised # NoExc =>
          ui_shown.error_arg =
              (IF HasIndicator(ui_run.raised.text) THEN UiErrRateLimit
               ELSE UiErrPrefix \o ui_run.raised.text)
    /\ ui_exc.origin # "run"
    /\ ui_run.calls <= 1

\* C5 witness: a run of the service raised with the indicator in the middle of
\* its text and the request was answered with the 60-second message.
C5_Witness ==
    /\ ChatAnswered
    /\ last.runs = 1
    /\ last.raised.text = <<"x", "Rate", "LimitReached">>
    /\ last.response = ErrorResponse(ErrRateLimit)

\* C9: when the service has shut down, a close of the tool-server connection
\* was attempted once if the tool-server object exists, and whatever the close
\* raised was swallowed: lifespan() surfaced no exception.
C9_ShutdownSwallows ==
    lifespan_pc = "stopped" =>
        /\ lifespan_exc = NoExc
        /\ Truthy(mcp_server) => svc_conn.aexit_calls = 1

\* C9 witness: startup failed at __aenter__, after the tool-server object was
\* created, and at shutdown the close raised.
C9_Witness ==
    /\ lifespan_pc = "stopped"
    /\ startup_failure = "aenter"
    /\ svc_conn.aexit_calls = 1
    /\ svc_conn.aexit_raised

=============================================================================
